---------------------------- MODULE Spec2Model ----------------------------
(***************************************************************************)
(* Model of the pico-expander firmware core: the byte-level command        *)
(* decoder (src/src/decoder.rs), the LED actuator (src/src/led.rs) and the *)
(* polling loop of main (src/src/main.rs).                                 *)
(*                                                                         *)
(* Bytes are integers 0..255.  Texts are sequences of bytes (ASCII codes). *)
(***************************************************************************)
EXTENDS Integers, Sequences, FiniteSets, TLC

VARIABLES
    decoder,    \* the Decoder struct: [state, target, value, command]
    build,      \* "unknown" | "wrapping": how this build treats u16 overflow
    halted,     \* TRUE once a panic has halted the program (panic_halt)
    fed,        \* history: one record per byte fed to Decoder::run
    pin,        \* the LED pin: TRUE when set high
    rate,       \* led.rate, milliseconds
    now,        \* main's `now`: the timer value at the last toggle
    timer,      \* the hardware timer, microseconds since start
    ticks,      \* how many times the timer has been advanced
    pc,         \* where main's loop is: "blink", "poll", "decode", "write"
    buf,        \* the bytes of the current read not yet decoded
    received,   \* how many bytes have been read so far
    text,       \* the response text being sent
    out,        \* the slice of text still to be written
    sent,       \* history: the bytes of text the transport has accepted
    wres,       \* history: "ok" or "err", what the last serial.write returned
    lastLed,    \* history: <<v>>, the value of the last Led command dispatched
    lastCmd,    \* history: the last command dispatched
    statuses,   \* history: LED state and response of each Status dispatched
    toggledAt   \* history: <<t>>, the timer value at the last toggle of the pin

decVars == <<decoder, build, halted>>
ledVars == <<pin, rate, now>>
ioVars == <<buf, received, text, out, sent, wres>>
cmdHist == <<lastLed, lastCmd, statuses>>
histVars == <<lastLed, lastCmd, statuses, toggledAt>>
mainVars == <<pin, rate, now, timer, ticks, pc, buf, received, text, out,
              sent, wres, lastLed, lastCmd, statuses, toggledAt>>
vars == <<decoder, build, halted, fed, pin, rate, now, timer, ticks, pc, buf,
          received, text, out, sent, wres, lastLed, lastCmd, statuses,
          toggledAt>>

---------------------------------------------------------------------------
(* Bounds of the model                                                     *)

\* Longest byte sequence fed to the decoder from the representative alphabet.
MaxFeed == 6
\* Deepest point of such a sequence at which any byte 0..255 is fed last.
ProbeDepth == 3
\* Most bytes the host sends to the main loop, and most bytes in one read.
MaxInput == 4
MaxRead == 2
\* Most advances of the hardware timer.
MaxTicks == 3

---------------------------------------------------------------------------
(* Byte literals of decoder.rs                                             *)

ESC == 27
ChLowerS == 115
ChUpperS == 83
ChLowerV == 118
ChUpperV == 86
ChLowerL == 108
ChUpperL == 76
Ch0 == 48
Ch9 == 57
LastControl == 31
\* Led::new: let rate: u64 = 500
DefaultRate == 500
\* let mut buf = [0u8; 64]
ReadCapacity == 64
\* Instant counts microseconds; to_millis divides by 1000.
TicksPerMilli == 1000
\* heapless::String<64>
StringCapacity == 64
\* u16
ValueModulus == 65536

Byte == 0..255

\* Representative bytes for sequences: a control byte, ESC, two digits and
\* the command letters (Valve in both cases).  Every other byte value is fed
\* by Probe.
ChLF == 10
Ch1 == 49
ChX == 88
SeqBytes == {ChLF, ESC, Ch0, Ch9, ChUpperS, ChUpperV, ChLowerV, ChUpperL}

IsDigit(c) == c >= Ch0 /\ c <= Ch9

\* Mutant: the control range 0..=31 written as 0..31 exclusive.
IsControl_Exclusive(c) == c >= 0 /\ c < LastControl

IsControl(c) == c >= 0 /\ c <= LastControl

---------------------------------------------------------------------------
(* Formatting (core::fmt)                                                  *)

RECURSIVE Dec(_)
\* Display of an unsigned integer: its decimal digits, no padding.
Dec(n) == IF n < 10 THEN <<Ch0 + n>> ELSE Dec(n \div 10) \o <<Ch0 + (n % 10)>>

\* impl fmt::Display for Commands
CommandName(cmd) ==
    CASE cmd = "Status" -> <<83, 116, 97, 116, 117, 115>>
      [] cmd = "Led"    -> <<76, 101, 100>>
      [] cmd = "Valve"  -> <<86, 97, 108, 118, 101>>

\* writeln!(&mut text, "Err: unrecognised '{}'\r", c): c is a u8, shown in decimal.
UnrecognisedText(c) ==
    <<69, 114, 114, 58, 32, 117, 110, 114, 101, 99, 111, 103, 110, 105, 115,
      101, 100, 32, 39>> \o Dec(c) \o <<39, 13, 10>>

\* writeln!(&mut text, "Err: bad target '{}'\r", c)
BadTargetText(c) ==
    <<69, 114, 114, 58, 32, 98, 97, 100, 32, 116, 97, 114, 103, 101, 116, 32,
      39>> \o Dec(c) \o <<39, 13, 10>>

\* Mutant: the response buffer is a String<32>.
FormatFails_HalfCapacity(t) == Len(t) > StringCapacity \div 2

\* A write into a String<64> fails when the text does not fit; unwrap() then panics.
FormatFails(t) == Len(t) > StringCapacity

---------------------------------------------------------------------------
(* Decoder (decoder.rs)                                                    *)

NoResult == [type |-> "None"]
TextResult(t) == [type |-> "Text", text |-> t]
CommandResult(cmd, tgt, val) ==
    [type |-> "Command", command |-> cmd, target |-> tgt, value |-> val]

\* Decoder::new
DecoderNew ==
    [state |-> "GetCommand", target |-> 0, value |-> 0, command |-> "Status"]

\* self.value * 10 + digit in u16, without overflow checks.
AccumulateValue(v, c) == (v * 10 + (c - Ch0)) % ValueModulus

\* The u16 arithmetic of the GetValue digit arm overflows.
ValueOverflows(d, c) ==
    d.state = "GetValue" /\ IsDigit(c) /\ d.value * 10 + (c - Ch0) >= ValueModulus

\* Mutant: the Status command carries the stored target and value.
GetCommandArm_StatusCarriesFields(d, c) ==
    CASE c = ChLowerS \/ c = ChUpperS ->
            [decoder |-> d, result |-> CommandResult("Status", d.target, d.value)]
      [] c = ChLowerV \/ c = ChUpperV ->
            [decoder |-> [d EXCEPT !.command = "Valve", !.state = "GetTarget"],
             result |-> NoResult]
      [] c = ChLowerL \/ c = ChUpperL ->
            [decoder |-> [d EXCEPT !.command = "Led", !.state = "GetNextValue"],
             result |-> NoResult]
      [] OTHER ->
            IF IsControl(c)
            THEN [decoder |-> d, result |-> NoResult]
            ELSE [decoder |-> d, result |-> TextResult(UnrecognisedText(c))]

\* Mutant: starting a Led command clears the stored target.
GetCommandArm_LedResetsTarget(d, c) ==
    CASE c = ChLowerS \/ c = ChUpperS ->
            [decoder |-> d, result |-> CommandResult("Status", 0, 0)]
      [] c = ChLowerV \/ c = ChUpperV ->
            [decoder |-> [d EXCEPT !.command = "Valve", !.state = "GetTarget"],
             result |-> NoResult]
      [] c = ChLowerL \/ c = ChUpperL ->
            [decoder |-> [d EXCEPT !.command = "Led", !.state = "GetNextValue",
                                   !.target = 0],
             result |-> NoResult]
      [] OTHER ->
            IF IsControl(c)
            THEN [decoder |-> d, result |-> NoResult]
            ELSE [decoder |-> d, result |-> TextResult(UnrecognisedText(c))]

GetCommandArm(d, c) ==
    CASE c = ChLowerS \/ c = ChUpperS ->
            [decoder |-> d, result |-> CommandResult("Status", 0, 0)]
      [] c = ChLowerV \/ c = ChUpperV ->
            [decoder |-> [d EXCEPT !.command = "Valve", !.state = "GetTarget"],
             result |-> NoResult]
      [] c = ChLowerL \/ c = ChUpperL ->
            [decoder |-> [d EXCEPT !.command = "Led", !.state = "GetNextValue"],
             result |-> NoResult]
      [] OTHER ->
            IF IsControl(c)
            THEN [decoder |-> d, result |-> NoResult]
            ELSE [decoder |-> d, result |-> TextResult(UnrecognisedText(c))]

\* Mutant: the target keeps the ASCII code of the digit.
GetTargetArm_RawTarget(d, c) ==
    CASE c = ESC ->
            [decoder |-> [d EXCEPT !.state = "GetCommand"], result |-> NoResult]
      [] IsDigit(c) ->
            [decoder |-> [d EXCEPT !.target = c, !.state = "GetNextValue"],
             result |-> NoResult]
      [] OTHER ->
            IF IsControl(c)
            THEN [decoder |-> d, result |-> NoResult]
            ELSE [decoder |-> [d EXCEPT !.state = "GetCommand"],
                  result |-> TextResult(BadTargetText(c))]

\* Mutant: a bad target byte is reported but the decoder keeps waiting.
GetTargetArm_KeepsWaiting(d, c) ==
    CASE c = ESC ->
            [decoder |-> [d EXCEPT !.state = "GetCommand"], result |-> NoResult]
      [] IsDigit(c) ->
            [decoder |-> [d EXCEPT !.target = c - Ch0, !.state = "GetNextValue"],
             result |-> NoResult]
      [] OTHER ->
            IF IsControl(c)
            THEN [decoder |-> d, result |-> NoResult]
            ELSE [decoder |-> d, result |-> TextResult(BadTargetText(c))]

GetTargetArm(d, c) ==
    CASE c = ESC ->
            [decoder |-> [d EXCEPT !.state = "GetCommand"], result |-> NoResult]
      [] IsDigit(c) ->
            [decoder |-> [d EXCEPT !.target = c - Ch0, !.state = "GetNextValue"],
             result |-> NoResult]
      [] OTHER ->
            IF IsControl(c)
            THEN [decoder |-> d, result |-> NoResult]
            ELSE [decoder |-> [d EXCEPT !.state = "GetCommand"],
                  result |-> TextResult(BadTargetText(c))]

\* Mutant: the first value digit is added to the value left by the last
\* command.
GetNextValueArm_Accumulates(d, c) ==
    CASE c = ESC ->
            [decoder |-> [d EXCEPT !.state = "GetCommand"], result |-> NoResult]
      [] IsDigit(c) ->
            [decoder |-> [d EXCEPT !.value = AccumulateValue(d.value, c),
                                   !.state = "GetValue"],
             result |-> NoResult]
      [] OTHER -> [decoder |-> d, result |-> NoResult]

\* Mutant: a byte that is no digit abandons the command, as in GetTarget.
GetNextValueArm_OtherResets(d, c) ==
    CASE c = ESC ->
            [decoder |-> [d EXCEPT !.state = "GetCommand"], result |-> NoResult]
      [] IsDigit(c) ->
            [decoder |-> [d EXCEPT !.value = c - Ch0, !.state = "GetValue"],
             result |-> NoResult]
      [] OTHER ->
            IF IsControl(c)
            THEN [decoder |-> d, result |-> NoResult]
            ELSE [decoder |-> [d EXCEPT !.state = "GetCommand"],
                  result |-> NoResult]

GetNextValueArm(d, c) ==
    CASE c = ESC ->
            [decoder |-> [d EXCEPT !.state = "GetCommand"], result |-> NoResult]
      [] IsDigit(c) ->
            [decoder |-> [d EXCEPT !.value = c - Ch0, !.state = "GetValue"],
             result |-> NoResult]
      [] OTHER -> [decoder |-> d, result |-> NoResult]

\* Mutant: ESC is not special while accumulating and ends the value.
GetValueArm_EscTerminates(d, c) ==
    CASE IsDigit(c) ->
            [decoder |-> [d EXCEPT !.value = AccumulateValue(d.value, c),
                                   !.state = "GetValue"],
             result |-> NoResult]
      [] OTHER ->
            [decoder |-> [d EXCEPT !.state = "GetCommand"],
             result |-> CommandResult(d.command, d.target, d.value)]

\* Mutant: the terminator emits the command but the state is not reset.
GetValueArm_StaysAccumulating(d, c) ==
    CASE c = ESC ->
            [decoder |-> [d EXCEPT !.state = "GetCommand"], result |-> NoResult]
      [] IsDigit(c) ->
            [decoder |-> [d EXCEPT !.value = AccumulateValue(d.value, c),
                                   !.state = "GetValue"],
             result |-> NoResult]
      [] OTHER ->
            [decoder |-> d,
             result |-> CommandResult(d.command, d.target, d.value)]

GetValueArm(d, c) ==
    CASE c = ESC ->
            [decoder |-> [d EXCEPT !.state = "GetCommand"], result |-> NoResult]
      [] IsDigit(c) ->
            [decoder |-> [d EXCEPT !.value = AccumulateValue(d.value, c),
                                   !.state = "GetValue"],
             result |-> NoResult]
      [] OTHER ->
            [decoder |-> [d EXCEPT !.state = "GetCommand"],
             result |-> CommandResult(d.command, d.target, d.value)]

\* Decoder::run on a build without overflow checks: the decoder afterwards
\* and the DecodeResult returned.
DecoderRun(d, c) ==
    CASE d.state = "GetCommand"   -> GetCommandArm(d, c)
      [] d.state = "GetTarget"    -> GetTargetArm(d, c)
      [] d.state = "GetNextValue" -> GetNextValueArm(d, c)
      [] d.state = "GetValue"     -> GetValueArm(d, c)

\* Decoder::run panics: an overflow on a build with overflow checks, or a
\* diagnostic that does not fit its String<64>.
DecoderPanics(d, c, checked) ==
    \/ checked /\ ValueOverflows(d, c)
    \/ LET r == DecoderRun(d, c).result
       IN  r.type = "Text" /\ FormatFails(r.text)

---------------------------------------------------------------------------
(* The decoder driven byte by byte                                         *)

\* One call of Decoder::run(c), recorded in the history.  An overflowing
\* digit halts a build with overflow checks and wraps otherwise; which build
\* this is stays open until the first overflow.
RunByte(c) ==
    /\ ~halted
    /\ \/ /\ ~DecoderPanics(decoder, c, FALSE)
          /\ LET r == DecoderRun(decoder, c)
             IN  /\ decoder' = r.decoder
                 /\ fed' = Append(fed, [byte |-> c, before |-> decoder,
                                        result |-> r.result])
          /\ build' = IF ValueOverflows(decoder, c) THEN "wrapping" ELSE build
          /\ UNCHANGED <<halted, mainVars>>
       \/ /\ DecoderPanics(decoder, c, build = "unknown")
          /\ halted' = TRUE
          /\ UNCHANGED <<decoder, build, fed, mainVars>>

\* A byte of the representative alphabet arrives.
Feed ==
    /\ Len(fed) < MaxFeed
    /\ \A i \in 1..Len(fed) : fed[i].byte \in SeqBytes
    /\ \E c \in SeqBytes : RunByte(c)

\* Any byte value arrives as the last byte of a short sequence.
Probe ==
    /\ Len(fed) <= ProbeDepth
    /\ \A i \in 1..Len(fed) : fed[i].byte \in SeqBytes
    /\ \E c \in Byte \ SeqBytes : RunByte(c)

\* Decoder::new (line 112 of main.rs) and the rest of main's state at the
\* first pass through the loop.
InitMain ==
    /\ decoder = DecoderNew
    /\ build = "unknown"
    /\ halted = FALSE
    /\ pin = FALSE
    /\ rate = DefaultRate
    /\ timer = 0
    /\ now = 0
    /\ ticks = 0
    /\ pc = "blink"
    /\ buf = <<>>
    /\ received = 0
    /\ text = <<>>
    /\ out = <<>>
    /\ sent = <<>>
    /\ wres = "none"
    /\ lastLed = <<>>
    /\ lastCmd = "none"
    /\ statuses = {}
    /\ toggledAt = <<>>

InitDecoder == InitMain /\ fed = <<>>

NextDecoder == Feed \/ Probe

SpecDecoder == InitDecoder /\ [][NextDecoder]_vars

---------------------------------------------------------------------------
(* The LED (led.rs) and main's loop (main.rs)                              *)

\* Bytes the host sends to the main loop: the command letters, two digits
\* and a printable byte that is no command.
MainBytes == {ChUpperS, ChUpperL, ChUpperV, Ch0, Ch1, ChX}

\* What the timer may advance by between two passes of the loop, in
\* microseconds: a millisecond and a half, or half a second.
TimerSteps == {1500, 500000}

\* (check - now).to_millis()
ToMillis(micros) == micros \div TicksPerMilli

\* Mutant: the LED toggles as soon as the elapsed time reaches the rate.
ShouldToggle_AtLeast(elapsed, r) == elapsed >= r

\* (check - now).to_millis() > led.rate
ShouldToggle(elapsed, r) == elapsed > r

\* Led::run of led.rs on a LED [on, rate, last] at the instant t.
LedRun(led, t) ==
    IF led.rate > 0
    THEN IF ShouldToggle(ToMillis(t - led.last), led.rate)
         THEN [led EXCEPT !.on = ~led.on, !.last = t]
         ELSE led
    ELSE [led EXCEPT !.on = FALSE]

\* writeln!(&mut text, "Run command: '{}' target: {} value: {}\r", ...)
CommandText(cmd, tgt, val) ==
    <<82, 117, 110, 32, 99, 111, 109, 109, 97, 110, 100, 58, 32, 39>>
    \o CommandName(cmd)
    \o <<39, 32, 116, 97, 114, 103, 101, 116, 58, 32>> \o Dec(tgt)
    \o <<32, 118, 97, 108, 117, 101, 58, 32>> \o Dec(val)
    \o <<13, 10>>

\* Mutant: every command sets the rate.
RateAfter_AnyCommand(r, cmd, val) == val

\* if command == Commands::Led { led.rate = value as u64 }
RateAfter(r, cmd, val) == IF cmd = "Led" THEN val ELSE r

\* Mutant: the retry skips one byte too many.
Remaining_SkipsOne(o, len) == SubSeq(o, len + 2, Len(o))

\* out = &out[len..]
Remaining(o, len) == SubSeq(o, len + 1, Len(o))

\* The lengths a partial write accepts in this model.
PartialLens == {7, 16}
\* What serial.write(out) may return as Ok(len): all of out, or less.
WriteLens(o) == {Len(o)} \cup {n \in PartialLens : n < Len(o)}

\* Where the loop goes once a byte is dealt with: the next byte of the
\* read, or the top of the loop.
NextPc(b) == IF b = <<>> THEN "blink" ELSE "decode"

\* text and out are locals of the match arm that writes them; outside it
\* they, and the record of what was written from them, are gone.
IoCleared ==
    /\ text' = <<>>
    /\ out' = <<>>
    /\ sent' = <<>>
    /\ wres' = "none"

\* The hardware timer advances while the loop is at its top.
Tick ==
    /\ ~halted
    /\ pc = "blink"
    /\ ticks < MaxTicks
    /\ \E step \in TimerSteps : timer' = timer + step
    /\ ticks' = ticks + 1
    /\ UNCHANGED <<decVars, fed, ledVars, pc, ioVars, histVars>>

\* Mutant: the test of the rate lets a rate of 0 through to the timer branch.
Blink_ZeroRateBlinks ==
    /\ ~halted
    /\ pc = "blink"
    /\ IF rate >= 0
       THEN LET check == timer
            IN  IF ShouldToggle(ToMillis(check - now), rate)
                THEN pin' = ~pin /\ now' = check /\ toggledAt' = <<check>>
                ELSE UNCHANGED <<pin, now, toggledAt>>
       ELSE pin' = FALSE /\ UNCHANGED <<now, toggledAt>>
    /\ pc' = "poll"
    /\ IoCleared
    /\ UNCHANGED <<decVars, fed, rate, timer, ticks, buf, received, cmdHist>>

\* Mutant: a toggle does not record the time at which it happened.
Blink_KeepsTimestamp ==
    /\ ~halted
    /\ pc = "blink"
    /\ IF rate > 0
       THEN LET check == timer
            IN  IF ShouldToggle(ToMillis(check - now), rate)
                THEN pin' = ~pin /\ now' = now /\ toggledAt' = <<check>>
                ELSE UNCHANGED <<pin, now, toggledAt>>
       ELSE pin' = FALSE /\ UNCHANGED <<now, toggledAt>>
    /\ pc' = "poll"
    /\ IoCleared
    /\ UNCHANGED <<decVars, fed, rate, timer, ticks, buf, received, cmdHist>>

\* main.rs 114-123: blink the led.
Blink ==
    /\ ~halted
    /\ pc = "blink"
    /\ IF rate > 0
       THEN LET check == timer
            IN  IF ShouldToggle(ToMillis(check - now), rate)
                THEN pin' = ~pin /\ now' = check /\ toggledAt' = <<check>>
                ELSE UNCHANGED <<pin, now, toggledAt>>
       ELSE pin' = FALSE /\ UNCHANGED <<now, toggledAt>>
    /\ pc' = "poll"
    /\ IoCleared
    /\ UNCHANGED <<decVars, fed, rate, timer, ticks, buf, received, cmdHist>>

\* main.rs 125-133: nothing to read (poll is false, Ok(0) or Err).
PollIdle ==
    /\ ~halted
    /\ pc = "poll"
    /\ pc' = "blink"
    /\ UNCHANGED <<decVars, fed, ledVars, timer, ticks, ioVars, histVars>>

\* Mutant: every read starts with a new decoder.
PollRead_NewDecoder ==
    /\ ~halted
    /\ pc = "poll"
    /\ \E count \in 1..MaxRead :
         /\ count <= ReadCapacity
         /\ received + count <= MaxInput
         /\ \E chunk \in [1..count -> MainBytes] :
              /\ buf' = chunk
              /\ received' = received + count
    /\ pc' = "decode"
    /\ decoder' = DecoderNew
    /\ UNCHANGED <<build, halted, fed, ledVars, timer, ticks, text, out, sent,
                   wres, histVars>>

\* main.rs 125-134: serial.read returns Ok(count), count > 0.
PollRead ==
    /\ ~halted
    /\ pc = "poll"
    /\ \E count \in 1..MaxRead :
         /\ count <= ReadCapacity
         /\ received + count <= MaxInput
         /\ \E chunk \in [1..count -> MainBytes] :
              /\ buf' = chunk
              /\ received' = received + count
    /\ pc' = "decode"
    /\ UNCHANGED <<decVars, fed, ledVars, timer, ticks, text, out, sent, wres,
                   histVars>>

\* main.rs 136-169: the next byte of the read goes through the decoder; a
\* diagnostic or a command response is made ready to be written, and a Led
\* command sets the rate.  With `logged` the call of decoder.run is added to
\* the history, with the number of bytes of the read that follow it.
Dispatch(logged) ==
    /\ ~halted
    /\ pc = "decode"
    /\ buf # <<>>
    /\ LET c == Head(buf)
           r == DecoderRun(decoder, c)
           res == r.result
           reply == IF res.type = "Command"
                    THEN CommandText(res.command, res.target, res.value)
                    ELSE IF res.type = "Text" THEN res.text ELSE <<>>
       IN  \/ /\ ~DecoderPanics(decoder, c, FALSE)
              /\ ~FormatFails(reply)
              /\ decoder' = r.decoder
              /\ build' = IF ValueOverflows(decoder, c) THEN "wrapping" ELSE build
              /\ buf' = Tail(buf)
              /\ rate' = IF res.type = "Command"
                         THEN RateAfter(rate, res.command, res.value)
                         ELSE rate
              /\ lastLed' = IF res.type = "Command" /\ res.command = "Led"
                            THEN <<res.value>> ELSE lastLed
              /\ lastCmd' = IF res.type = "Command" THEN res.command ELSE lastCmd
              /\ statuses' = IF res.type = "Command" /\ res.command = "Status"
                             THEN statuses \cup
                                  {[on |-> pin, rate |-> rate, text |-> reply]}
                             ELSE statuses
              /\ IF reply # <<>>
                 THEN /\ text' = reply
                      /\ out' = reply
                      /\ sent' = <<>>
                      /\ wres' = "none"
                      /\ pc' = "write"
                 ELSE /\ IoCleared
                      /\ pc' = NextPc(buf')
              /\ fed' = IF logged
                        THEN Append(fed, [byte |-> c, before |-> decoder,
                                          result |-> res,
                                          rest |-> Len(buf) - 1])
                        ELSE fed
              /\ UNCHANGED <<halted, pin, now, timer, ticks, received,
                             toggledAt>>
           \/ /\ \/ DecoderPanics(decoder, c, build = "unknown")
                 \/ FormatFails(reply)
              /\ halted' = TRUE
              /\ UNCHANGED <<decoder, build, fed, mainVars>>

Decode ==
    /\ pc = "decode"
    /\ Dispatch(FALSE)

\* main.rs 144-146, 170-172: serial.write(out) returns Ok(len).
WriteOk ==
    /\ ~halted
    /\ pc = "write"
    /\ \E len \in WriteLens(out) :
         /\ sent' = sent \o SubSeq(out, 1, len)
         /\ out' = Remaining(out, len)
         /\ wres' = "ok"
    /\ pc' = IF out' = <<>> THEN NextPc(buf) ELSE "write"
    /\ UNCHANGED <<decVars, fed, ledVars, timer, ticks, buf, received, text,
                   histVars>>

\* Mutant: a failed write abandons the rest of the read as well.
WriteErr_DropsRead ==
    /\ ~halted
    /\ pc = "write"
    /\ out' = <<>>
    /\ wres' = "err"
    /\ buf' = <<>>
    /\ pc' = "blink"
    /\ UNCHANGED <<decVars, fed, ledVars, timer, ticks, received, text, sent,
                   histVars>>

\* main.rs 147-150, 173-176: serial.write(out) returns Err; the loop breaks
\* and the slice goes out of scope.
WriteErr ==
    /\ ~halted
    /\ pc = "write"
    /\ out' = <<>>
    /\ wres' = "err"
    /\ pc' = NextPc(buf)
    /\ UNCHANGED <<decVars, fed, ledVars, timer, ticks, buf, received, text,
                   sent, histVars>>

Init == InitMain /\ fed = <<>>

Next == Tick \/ Blink \/ PollIdle \/ PollRead \/ Decode \/ WriteOk \/ WriteErr

Spec == Init /\ [][Next]_vars

\* The main loop with every call of decoder.run kept in the history; the
\* timer stands still, which no decoding depends on.
DecodeLogged ==
    /\ pc = "decode"
    /\ Dispatch(TRUE)

NextSplit ==
    Blink \/ PollIdle \/ PollRead \/ DecodeLogged \/ WriteOk \/ WriteErr

SpecSplit == Init /\ [][NextSplit]_vars

---------------------------------------------------------------------------
(* Reading the history of fed bytes                                        *)

\* The decoder as the i-th call of run left it.
After(i) == IF i < Len(fed) THEN fed[i + 1].before ELSE decoder

Neutral(d) == d.state = "GetCommand"
InProgress(d) == d.state \in {"GetTarget", "GetNextValue", "GetValue"}

StatusLetters == {ChLowerS, ChUpperS}
ValveLetters == {ChLowerV, ChUpperV}
LedLetters == {ChLowerL, ChUpperL}
Letters(cmd) ==
    CASE cmd = "Status" -> StatusLetters
      [] cmd = "Valve"  -> ValveLetters
      [] cmd = "Led"    -> LedLetters

RECURSIVE DigitsValue(_, _)
\* The number that the digits fed at positions lo..hi write in base ten.
DigitsValue(lo, hi) ==
    IF lo > hi THEN 0
    ELSE DigitsValue(lo, hi - 1) * 10 + (fed[hi].byte - Ch0)

AllDigits(lo, hi) == \A k \in lo..hi : IsDigit(fed[k].byte)
Terminator(c) == ~IsDigit(c) /\ c # ESC
Silent(lo, hi) == \A k \in lo..hi : fed[k].result = NoResult

\* Positions i..j hold V, a target digit, one or more value digits and a
\* terminator, the value fitting 16 bits.
ValveSeq(i, j) ==
    /\ j >= i + 3
    /\ fed[i].byte \in ValveLetters
    /\ IsDigit(fed[i + 1].byte)
    /\ AllDigits(i + 2, j - 1)
    /\ Terminator(fed[j].byte)
    /\ DigitsValue(i + 2, j - 1) < ValueModulus

\* Positions i..j hold L, one or more value digits and a terminator.
LedSeq(i, j) ==
    /\ j >= i + 2
    /\ fed[i].byte \in LedLetters
    /\ AllDigits(i + 1, j - 1)
    /\ Terminator(fed[j].byte)
    /\ DigitsValue(i + 1, j - 1) < ValueModulus

StatusSeq(i, j) == i = j /\ fed[i].byte \in StatusLetters

ValidSeq(i, j) == StatusSeq(i, j) \/ ValveSeq(i, j) \/ LedSeq(i, j)

\* What the protocol says the valid command at positions i..j means.
Expected(i, j) ==
    CASE StatusSeq(i, j) -> CommandResult("Status", 0, 0)
      [] ValveSeq(i, j) ->
            CommandResult("Valve", fed[i + 1].byte - Ch0, DigitsValue(i + 2, j - 1))
      [] LedSeq(i, j) ->
            CommandResult("Led", fed[i].before.target, DigitsValue(i + 1, j - 1))

Positions == 1..Len(fed)
\* The byte fed last.  Every prefix of the history is the history of an
\* earlier state, so a property of the segments that end at the last byte,
\* holding in every state, is a property of all segments.
Last == Len(fed)

---------------------------------------------------------------------------
(* Claims about the decoder                                                *)

\* C1: from the neutral state, V or v, a target digit d, value digits of
\* decimal value n <= 65535 and a terminator (no digit, not ESC) give no
\* event before the terminator and exactly Command(Valve, d, n) on it; the
\* terminator is consumed and the decoder is neutral again.
C1_ValveDecodes ==
    \A i \in Positions :
        (Neutral(fed[i].before) /\ ValveSeq(i, Last)) =>
            /\ Silent(i, Last - 1)
            /\ fed[Last].result =
                 CommandResult("Valve", fed[i + 1].byte - Ch0,
                               DigitsValue(i + 2, Last - 1))
            /\ Neutral(decoder)

\* A lower-case v, target 9, a two-digit value and the terminator S have
\* been decoded.
C1_Witness ==
    \E i \in Positions :
        /\ Neutral(fed[i].before) /\ ValveSeq(i, Last)
        /\ fed[i].byte = ChLowerV
        /\ fed[i + 1].byte = Ch9
        /\ Last = i + 4
        /\ fed[Last].byte = ChUpperS

\* C2: ESC in GetTarget, GetNextValue or GetValue returns no event and
\* leaves the decoder neutral; the command that was pending is not emitted
\* by any later byte unless its letter has been sent again in between.
C2_EscAborts ==
    \A i \in Positions :
        (fed[i].byte = ESC /\ InProgress(fed[i].before)) =>
            /\ fed[i].result = NoResult
            /\ Neutral(After(i))
            /\ (/\ Last > i
                /\ fed[Last].result.type = "Command"
                /\ fed[Last].result.command = fed[i].before.command)
               => \E k \in (i + 1)..(Last - 1) :
                      fed[k].byte \in Letters(fed[i].before.command)

\* ESC aborted a command whose value was being accumulated, and the same
\* command, sent again from its letter, was emitted afterwards.
C2_Witness ==
    \E i \in Positions :
        /\ fed[i].byte = ESC
        /\ fed[i].before.state = "GetValue"
        /\ Last > i
        /\ fed[Last].result.type = "Command"
        /\ fed[Last].result.command = fed[i].before.command

\* C3: in the neutral state a control byte (0..31) gives no event, any
\* other byte that is no command letter (128..255 included) gives a
\* diagnostic Text, and either way the whole decoder is unchanged.
C3_NeutralOtherBytes ==
    (/\ Last >= 1
     /\ Neutral(fed[Last].before)
     /\ fed[Last].byte \notin StatusLetters \cup ValveLetters \cup LedLetters)
    => /\ (fed[Last].byte <= LastControl) => fed[Last].result = NoResult
       /\ (fed[Last].byte > LastControl) => fed[Last].result.type = "Text"
       /\ decoder = fed[Last].before

\* A byte above 127 met a neutral decoder that an earlier command had left
\* with a value other than 0, and was answered with a diagnostic.
C3_Witness ==
    /\ Last >= 1
    /\ Neutral(fed[Last].before)
    /\ fed[Last].before.value # 0
    /\ fed[Last].byte > 127
    /\ fed[Last].result.type = "Text"

\* C4: in the neutral state s or S returns Command(Status, 0, 0) on that
\* byte whatever target and value are stored, and leaves the whole decoder
\* unchanged.
C4_StatusImmediate ==
    (/\ Last >= 1
     /\ Neutral(fed[Last].before)
     /\ fed[Last].byte \in StatusLetters)
    => /\ fed[Last].result = CommandResult("Status", 0, 0)
       /\ decoder = fed[Last].before

\* A lower-case s met a neutral decoder that stored a value other than 0.
C4_Witness ==
    /\ Last >= 1
    /\ Neutral(fed[Last].before)
    /\ fed[Last].before.value # 0
    /\ fed[Last].before.command = "Led"
    /\ fed[Last].byte = ChLowerS

\* C5: from the neutral state, the bytes of one valid command followed at
\* once by the bytes of a second give exactly two events, on the last byte
\* of each: the commands the two sequences mean, the second read against
\* the decoder the first one left; the decoder is neutral afterwards.
C5_TwoCommands ==
    \A i \in Positions : \A j \in Positions :
        (/\ Neutral(fed[i].before)
         /\ j < Last
         /\ ValidSeq(i, j)
         /\ ValidSeq(j + 1, Last))
        => /\ Silent(i, j - 1)
           /\ fed[j].result = Expected(i, j)
           /\ Neutral(After(j))
           /\ Silent(j + 1, Last - 1)
           /\ fed[Last].result = Expected(j + 1, Last)
           /\ Neutral(decoder)

\* Two commands of several bytes each were decoded back to back.
C5_Witness ==
    \E i \in Positions : \E j \in Positions :
        /\ Neutral(fed[i].before)
        /\ j < Last
        /\ ValidSeq(i, j) /\ j > i
        /\ ValidSeq(j + 1, Last) /\ Last > j + 1

---------------------------------------------------------------------------
(* Claims about the LED and the main loop                                  *)

\* The step is the actuator update at the top of the loop.
BlinkStep == pc = "blink" /\ pc' = "poll"

\* The LED before the step as led.rs holds it, and what Led::run makes of it
\* at the instant the timer shows.
LedBefore == [on |-> pin, rate |-> rate, last |-> now]
LedUpdated == LedRun(LedBefore, timer)

\* The rate that the Led commands dispatched so far call for.
RateCalledFor == IF lastLed = <<>> THEN DefaultRate ELSE lastLed[1]

\* C6: the rate is 500 until a Led command is dispatched and from then on
\* the value of the Led command dispatched last; no Status or Valve
\* command, diagnostic or silent byte changes it.
C6_RateFollowsLed == rate = RateCalledFor

\* A Led command set a rate other than the default and a Status command
\* was dispatched after it.
C6_Witness ==
    /\ lastLed # <<>>
    /\ rate # DefaultRate
    /\ rate = lastLed[1]
    /\ lastCmd = "Status"
    /\ pc = "write"

\* C7: with rate 0 the update at the top of the loop leaves the output off
\* whatever time has elapsed and keeps the last-toggle timestamp, as
\* Led::run does; no other step moves the output, and the rate stays 0
\* until a Led command with another value is dispatched.
C7_ZeroRateForcesOff ==
    [][ /\ (BlinkStep /\ rate = 0) =>
               /\ pin' = FALSE
               /\ now' = now
               /\ LedUpdated.on = FALSE /\ LedUpdated.last = now
        /\ ~BlinkStep => pin' = pin
        /\ (rate = 0 /\ rate' # 0) =>
               /\ pc = "decode"
               /\ lastCmd' = "Led"
               /\ lastLed' = <<rate'>>
      ]_vars

\* A Led command set the rate to 0 after the output had toggled, and an
\* update later, with time elapsed since that toggle, the output is off.
C7_Witness ==
    /\ rate = 0
    /\ lastLed = <<0>>
    /\ pc = "poll"
    /\ pin = FALSE
    /\ now > 0
    /\ ToMillis(timer - now) > 0

\* C8 as stated: with rate > 0 the update toggles the output and sets the
\* last-toggle timestamp whenever the elapsed milliseconds are greater than
\* or equal to the rate, and changes neither when they are below it.
C8_TogglesAtRate ==
    [][ (BlinkStep /\ rate > 0) =>
            IF ToMillis(timer - now) >= rate
            THEN pin' = ~pin /\ now' = timer
            ELSE pin' = pin /\ now' = now
      ]_vars

\* C8 amended: with rate > 0 the update toggles the output and sets the
\* last-toggle timestamp only when the elapsed milliseconds are strictly
\* greater than the rate, and changes neither when they are equal to or
\* below it; main's loop and Led::run agree on this.
C8_TogglesAboveRate ==
    [][ (BlinkStep /\ rate > 0) =>
            /\ IF ToMillis(timer - now) > rate
               THEN pin' = ~pin /\ now' = timer
               ELSE pin' = pin /\ now' = now
            /\ pin' = LedUpdated.on
            /\ now' = LedUpdated.last
      ]_vars

\* An update has run with the elapsed milliseconds equal to the rate and
\* has not toggled (a toggle would have reset the elapsed time to 0).
C8_Witness ==
    /\ pc = "poll"
    /\ rate > 0
    /\ ToMillis(timer - now) = rate

\* C9: two Status commands dispatched while the LED differs in its on/off
\* state or in its rate are answered with different texts.
C9_StatusTextEncodesState ==
    \A a \in statuses : \A b \in statuses :
        (a.on # b.on \/ a.rate # b.rate) => a.text # b.text

\* C10: the bytes the transport accepts are the response text in order,
\* each write resuming at exactly the byte after the last one accepted;
\* once a write fails nothing more of that response is written, its slice
\* is dropped and the loop goes on to the next byte of the read.
C10_WritesArePrefix ==
    [][ /\ (sent' # sent /\ sent' # <<>>) =>
               /\ pc = "write"
               /\ wres # "err"
               /\ text' = text
               /\ Len(sent') > Len(sent)
               /\ sent' = SubSeq(text, 1, Len(sent'))
               /\ out' = SubSeq(text, Len(sent') + 1, Len(text))
        /\ pc' = "write" => (out' # <<>> /\ wres' # "err")
        /\ wres' = "err" =>
               /\ sent' = sent
               /\ out' = <<>>
               /\ buf' = buf
               /\ pc' = NextPc(buf)
      ]_vars

\* A write failed after part of a response had been accepted, and the next
\* byte of the same read is about to be decoded.
C10_Witness ==
    /\ wres = "err"
    /\ sent # <<>>
    /\ Len(sent) < Len(text)
    /\ out = <<>>
    /\ pc = "decode"
    /\ buf # <<>>

---------------------------------------------------------------------------
(* Further claims about the decoder                                        *)

\* The positions at which a target digit was stored, and at which a first
\* value digit was stored.
TargetPositions ==
    {k \in Positions : fed[k].before.state = "GetTarget" /\ IsDigit(fed[k].byte)}
EntryPositions ==
    {k \in Positions : fed[k].before.state = "GetNextValue" /\ IsDigit(fed[k].byte)}

Latest(S) == CHOOSE k \in S : \A m \in S : m <= k

\* The digit stored last as a target, 0 if there never was one.
StoredTarget ==
    IF TargetPositions = {} THEN 0 ELSE fed[Latest(TargetPositions)].byte - Ch0

\* C12: no input halts the program; while a value is accumulated it is the
\* decimal value of its digits modulo 65536, also past 65535.
C12_OverflowNeverHalts ==
    /\ ~halted
    /\ decoder.state = "GetValue" =>
           decoder.value =
               DigitsValue(Latest(EntryPositions), Last) % ValueModulus

\* C13: a Led command carries the target digit stored last by GetTarget,
\* also when that Valve command was aborted, or 0 if none was ever stored;
\* L takes no target digit, the first digit after it is the first digit of
\* the value.
C13_LedKeepsTarget ==
    /\ (/\ Last >= 1
        /\ fed[Last].result.type = "Command"
        /\ fed[Last].result.command = "Led")
       => fed[Last].result.target = StoredTarget
    /\ \A i \in Positions :
         (Neutral(fed[i].before) /\ LedSeq(i, Last)) =>
             /\ fed[i + 1].before.state = "GetNextValue"
             /\ fed[Last].result =
                  CommandResult("Led", StoredTarget, DigitsValue(i + 1, Last - 1))

\* A Led command was emitted with the target 9 of a Valve command that ESC
\* had aborted.
C13_Witness ==
    /\ Last >= 1
    /\ fed[Last].result.type = "Command"
    /\ fed[Last].result.command = "Led"
    /\ fed[Last].result.target = 9
    /\ \E k \in Positions : fed[k].byte = ESC /\ fed[k].before.command = "Valve"

\* C14: in GetValue, short of a 16-bit overflow, the value is the decimal
\* value of exactly the digits fed since the one that entered GetValue;
\* a command emitted on a terminator carries that value and nothing of any
\* earlier command.
C14_ValueIsItsDigits ==
    /\ decoder.state = "GetValue" =>
         LET e == Latest(EntryPositions)
         IN  /\ AllDigits(e, Last)
             /\ DigitsValue(e, Last) < ValueModulus =>
                    decoder.value = DigitsValue(e, Last)
    /\ (/\ Last >= 1
        /\ fed[Last].before.state = "GetValue"
        /\ fed[Last].result.type = "Command")
       => LET e == Latest(EntryPositions)
          IN  /\ AllDigits(e, Last - 1)
              /\ DigitsValue(e, Last - 1) < ValueModulus =>
                     fed[Last].result.value = DigitsValue(e, Last - 1)

\* A value is being accumulated that is smaller than the value of a
\* command emitted earlier.
C14_Witness ==
    /\ decoder.state = "GetValue"
    /\ \E k \in Positions :
         /\ fed[k].result.type = "Command"
         /\ fed[k].result.value > decoder.value

\* C15: in GetTarget a byte that is not ESC, no digit and no control byte
\* gives a diagnostic Text and is consumed, the decoder going back to
\* GetCommand; a control byte other than ESC gives no event and changes
\* nothing; the Valve command abandoned is not emitted later unless V is
\* sent again.
C15_BadTarget ==
    /\ (Last >= 1 /\ fed[Last].before.state = "GetTarget") =>
         LET c == fed[Last].byte
         IN  /\ (c > LastControl /\ ~IsDigit(c)) =>
                    /\ fed[Last].result.type = "Text"
                    /\ decoder = [fed[Last].before EXCEPT !.state = "GetCommand"]
             /\ (c <= LastControl /\ c # ESC) =>
                    /\ fed[Last].result = NoResult
                    /\ decoder = fed[Last].before
    /\ \A i \in Positions :
         (/\ i < Last
          /\ fed[i].before.state = "GetTarget"
          /\ fed[i].result.type = "Text"
          /\ fed[Last].result.type = "Command"
          /\ fed[Last].result.command = "Valve")
         => \E k \in (i + 1)..(Last - 1) : fed[k].byte \in ValveLetters

\* V followed by S gave one diagnostic and no Status command.
C15_Witness ==
    /\ Last >= 1
    /\ fed[Last].before.state = "GetTarget"
    /\ fed[Last].byte \in StatusLetters
    /\ fed[Last].result.type = "Text"
    /\ Neutral(decoder)

\* C16: in GetNextValue every byte other than ESC and the digits gives no
\* event and leaves the whole decoder as it was; a digit leads to GetValue
\* and ESC to GetCommand, and nothing else leaves the state.
C16_FirstDigitAwaited ==
    (Last >= 1 /\ fed[Last].before.state = "GetNextValue") =>
        LET c == fed[Last].byte
        IN  /\ fed[Last].result = NoResult
            /\ (~IsDigit(c) /\ c # ESC) => decoder = fed[Last].before
            /\ IsDigit(c) <=> decoder.state = "GetValue"
            /\ c = ESC <=> decoder.state = "GetCommand"

\* A command letter met a decoder that awaited the first value digit of a
\* Valve command, and was dropped.
C16_Witness ==
    /\ Last >= 1
    /\ fed[Last].before.state = "GetNextValue"
    /\ fed[Last].before.command = "Valve"
    /\ fed[Last].byte \in StatusLetters
    /\ decoder.state = "GetNextValue"

---------------------------------------------------------------------------
(* Further claims about the main loop                                      *)

\* A step of the led update that toggles the pin.
ToggleStep == BlinkStep /\ rate > 0 /\ pin' # pin

\* C17: led updates repeated with the timer where it was at the last
\* toggle change neither the pin nor the time of the last toggle, and
\* between two toggles the timer advances by more than rate milliseconds;
\* Led::run applied twice at one instant does what one application does.
C17_OneTogglePerInterval ==
    [][/\ (BlinkStep /\ rate > 0 /\ toggledAt = <<timer>>) =>
              (pin' = pin /\ now' = now /\ toggledAt' = toggledAt)
       /\ (ToggleStep /\ toggledAt # <<>>) =>
              timer - toggledAt[1] > rate * TicksPerMilli
       /\ (BlinkStep /\ rate > 0) =>
              LedRun(LedUpdated, timer) = LedUpdated]_vars

\* The pin has toggled on and off again under a rate above 0, and the
\* loop is back at the led update with the timer where the last toggle
\* left it.
C17_Witness ==
    /\ pc = "blink"
    /\ toggledAt = <<timer>>
    /\ now = timer
    /\ timer > 0
    /\ rate > 0
    /\ lastLed \in {<<>>, <<rate>>}
    /\ ~pin

\* A step of a response write loop, and a step that decodes one byte.
WriteStep == pc = "write" /\ (out' # out \/ wres' # wres)
DecodeStep == pc = "decode" /\ ~halted /\ ~halted' /\ buf' # buf

\* C20: whatever the writes of a response return, the rate stays the one
\* the Led commands call for, the decoder and the rest of the read are
\* untouched, and once the response is written or dropped the loop goes on
\* with the next byte of the read, decoded as if nothing had been lost.
C20_LedEffectSurvivesWrite ==
    [][/\ WriteStep =>
             /\ rate' = rate
             /\ rate' = RateCalledFor'
             /\ decoder' = decoder
             /\ buf' = buf
             /\ lastCmd' = lastCmd
             /\ pc' = IF out' = <<>> THEN NextPc(buf) ELSE "write"
             /\ wres' = "err" => out' = <<>>
       /\ DecodeStep =>
             /\ decoder' = DecoderRun(decoder, Head(buf)).decoder
             /\ buf' = Tail(buf)]_vars

\* The response to a Led command was dropped at its first write with bytes
\* of the same read still to decode; the rate is the command's value.
C20_Witness ==
    /\ wres = "err"
    /\ sent = <<>>
    /\ lastLed # <<>>
    /\ text = CommandText("Led", 0, lastLed[1])
    /\ rate = lastLed[1]
    /\ rate # DefaultRate
    /\ buf # <<>>
    /\ pc = "decode"

---------------------------------------------------------------------------
(* The response texts for every input of the formatting                    *)

CommandNames == {"Status", "Valve", "Led"}
Targets == 0..(Ch9 - Ch0)
Values == 0..(ValueModulus - 1)

\* The decoder holds a command, a target and a value and is about to emit
\* them (GetValue), or awaits a command letter or a target; the value
\* starts at 0 and is stepped through the whole u16 range.
InitFormat ==
    /\ \/ \E cmd \in CommandNames : \E tgt \in Targets :
             decoder = [state |-> "GetValue", command |-> cmd,
                        target |-> tgt, value |-> 0]
       \/ decoder = DecoderNew
       \/ decoder = [DecoderNew EXCEPT !.state = "GetTarget"]
    /\ build = "unknown"
    /\ halted = FALSE
    /\ fed = <<>>
    /\ pin = FALSE
    /\ rate = DefaultRate
    /\ timer = 0
    /\ now = 0
    /\ ticks = 0
    /\ pc = "decode"
    /\ buf = <<>>
    /\ received = 0
    /\ text = <<>>
    /\ out = <<>>
    /\ sent = <<>>
    /\ wres = "none"
    /\ lastLed = <<>>
    /\ lastCmd = "none"
    /\ statuses = {}
    /\ toggledAt = <<>>

formatFrame == <<build, fed, pin, rate, timer, now, ticks, pc, received, out,
                 sent, wres, lastLed, lastCmd, statuses, toggledAt>>

\* main.rs 156-162: the response to Command(command, target, value) is
\* written into a String<64> and unwrapped.
FormatCommand ==
    /\ ~halted
    /\ decoder.state = "GetValue"
    /\ \E val \in {decoder.value, decoder.value + 1} \cap Values :
         LET reply == CommandText(decoder.command, decoder.target, val)
         IN  /\ decoder' = [decoder EXCEPT !.value = val]
             /\ text' = reply
             /\ halted' = FormatFails(reply)
    /\ UNCHANGED <<buf, formatFrame>>

\* decoder.rs 64-68: the diagnostic for a byte that is no command.
FormatUnrecognised ==
    /\ ~halted
    /\ decoder.state = "GetCommand"
    /\ \E c \in Byte :
         /\ buf' = <<c>>
         /\ text' = UnrecognisedText(c)
         /\ halted' = FormatFails(UnrecognisedText(c))
    /\ UNCHANGED <<decoder, formatFrame>>

\* decoder.rs 79-84: the diagnostic for a byte that is no target.
FormatBadTarget ==
    /\ ~halted
    /\ decoder.state = "GetTarget"
    /\ \E c \in Byte :
         /\ buf' = <<c>>
         /\ text' = BadTargetText(c)
         /\ halted' = FormatFails(BadTargetText(c))
    /\ UNCHANGED <<decoder, formatFrame>>

NextFormat == FormatCommand \/ FormatUnrecognised \/ FormatBadTarget

SpecFormat == InitFormat /\ [][NextFormat]_vars

\* The longest response there is.
LongestText == CommandText("Status", 9, ValueModulus - 1)

\* C18: every response text, for any command, target and 16-bit value and
\* for either diagnostic of any byte, fits the 64 bytes of the buffer, so
\* no formatting fails and the program is not halted by it.
C18_ResponsesFit ==
    /\ ~halted
    /\ ~FormatFails(text)
    /\ Len(text) <= Len(LongestText)
    /\ Len(LongestText) <= StringCapacity

\* The response to Command(Status, 9, 65535), the longest of all, has been
\* built without halting.
C18_Witness ==
    /\ decoder.command = "Status"
    /\ decoder.target = 9
    /\ decoder.value = ValueModulus - 1
    /\ text = LongestText
    /\ Len(text) > StringCapacity \div 2
    /\ ~halted

---------------------------------------------------------------------------
(* The byte stream against the reads that delivered it                     *)

\* The bytes decoded so far, whatever reads brought them.
Stream == [i \in Positions |-> fed[i].byte]

\* The events of a decoder that is given the bytes in one go, and the
\* decoder after them.
RECURSIVE Events(_, _)
Events(d, bytes) ==
    IF bytes = <<>>
    THEN <<>>
    ELSE <<DecoderRun(d, Head(bytes)).result>>
         \o Events(DecoderRun(d, Head(bytes)).decoder, Tail(bytes))

RECURSIVE DecoderAfter(_, _)
DecoderAfter(d, bytes) ==
    IF bytes = <<>>
    THEN d
    ELSE DecoderAfter(DecoderRun(d, Head(bytes)).decoder, Tail(bytes))

\* The rate that a sequence of events leaves, starting from r.
RECURSIVE RateOf(_, _)
RateOf(r, events) ==
    IF events = <<>>
    THEN r
    ELSE RateOf(IF Head(events).type = "Command"
                THEN RateAfter(r, Head(events).command, Head(events).value)
                ELSE r,
                Tail(events))

\* The response the loop attempts for an event.
ReplyTo(res) ==
    IF res.type = "Command"
    THEN CommandText(res.command, res.target, res.value)
    ELSE IF res.type = "Text" THEN res.text ELSE <<>>

\* C19: the events decoded by the loop, the decoder they leave, the rate
\* and the response attempted last are those of one decoder given the
\* whole stream of received bytes at once, however the reads split it.
C19_SplitsDoNotMatter ==
    /\ [i \in Positions |-> fed[i].result] = Events(DecoderNew, Stream)
    /\ decoder = DecoderAfter(DecoderNew, Stream)
    /\ rate = RateOf(DefaultRate, Events(DecoderNew, Stream))
    /\ text # <<>> => text = ReplyTo(fed[Last].result)

\* A Led command was emitted whose letter was the last byte of one read,
\* its digit and its terminator coming with later reads.
C19_Witness ==
    /\ Last >= 3
    /\ fed[Last].result.type = "Command"
    /\ fed[Last].result.command = "Led"
    /\ fed[Last].result.value = 1
    /\ fed[Last - 2].byte \in LedLetters
    /\ fed[Last - 2].rest = 0
    /\ fed[Last - 1].rest = 0
    /\ rate = 1

---------------------------------------------------------------------------
(* The loop as it keeps running                                            *)

\* The bytes "L9999": one more digit takes the value past 16 bits.
NearOverflow == <<ChUpperL, Ch9, Ch9, Ch9, Ch9>>

\* The loop is taken up with a new decoder, or with the decoder as the
\* bytes "L9999" of earlier reads have left it.
InitLive ==
    /\ decoder \in {DecoderNew, DecoderAfter(DecoderNew, NearOverflow)}
    /\ build = "unknown"
    /\ halted = FALSE
    /\ fed = <<>>
    /\ pin = FALSE
    /\ rate = DefaultRate
    /\ timer = 0
    /\ now = 0
    /\ ticks = 0
    /\ pc = "blink"
    /\ buf = <<>>
    /\ received = 0
    /\ text = <<>>
    /\ out = <<>>
    /\ sent = <<>>
    /\ wres = "none"
    /\ lastLed = <<>>
    /\ lastCmd = "none"
    /\ statuses = {}
    /\ toggledAt = <<>>

\* The processor keeps executing the loop: whenever a step is possible,
\* one is taken.
SpecLive == InitLive /\ [][Next]_vars /\ WF_vars(Next)

\* C11: whatever the reads and the writes of the responses return, the
\* loop comes back to its top, so the led update is executed again and
\* again, for ever.
C11_LedUpdateRecurs == []<><<Blink>>_vars

=============================================================================
